---- MODULE Spec2Model ----
(***************************************************************************)
(* The Grover diffusion-operator notebook                                  *)
(* (notebooks/00-grovers-algorithm-paper-notes.ipynb) as a state machine.  *)
(*                                                                         *)
(* The state is the kernel's namespace (n, D, i, j, psi_input, H, R,       *)
(* new_D), the value each displaying cell returned (out3, out6), the       *)
(* exception each cell raised (err) and the position of the run (pc).      *)
(* The code cells are executed once each, top to bottom; a cell that       *)
(* raises binds nothing more and the next cell is executed after it.       *)
(*                                                                         *)
(* Numbers.  Every number the notebook computes is an integer divided by a *)
(* power of sqrt(2): 2/2^n and -1 + 2/2^n are exact dyadic doubles, the    *)
(* Hadamard entries are +-1/sqrt(2).  A matrix or a vector is kept as      *)
(*      [dim, num, sq]    meaning    num / sqrt(2)^sq   entry by entry,    *)
(* and arithmetic is exact.  Qiskit compares operators with numpy.allclose *)
(* (atol 1e-8); two different numbers of this form with the small          *)
(* numerators that occur here differ by far more than that, so allclose is *)
(* modelled by exact equality of the represented values (ScalarEq), which  *)
(* is not equality of the representations.                                 *)
(* A name that is not bound in the namespace is a value of dim 0.          *)
(***************************************************************************)
EXTENDS Integers, Sequences, FiniteSets, TLC

VARIABLES pc, n, D, i, j, writes, psi_input, out3, H, R, new_D, out6, err

vars == <<pc, n, D, i, j, writes, psi_input, out3, H, R, new_D, out6, err>>

(* ------------------------------ bounds --------------------------------- *)

\* qubit counts tried by the parametrised run: -MaxNeg .. MaxN
MaxN == 4

MaxNeg == 1

\* qubit counts and integer amplitudes tried when D is applied to any vector
MaxQubits == 2

MaxAmp == 1

(* --------------------------- program constants -------------------------- *)

\* cell 1: n = 3
n_literal == 3

(* ------------------------------ arithmetic ------------------------------ *)

RECURSIVE Pow2(_)
Pow2(k) == IF k <= 0 THEN 1 ELSE 2 * Pow2(k - 1)

\* slip: zero qubits refused along with the negative counts
PyPow2IsIntPositive(k) == k >= 1

\* Python's 2 ** k: an int for k >= 0, a float (0.5, 0.25, ...) for k < 0
PyPow2IsInt(k) == k >= 0

RECURSIVE SumTo(_, _)
SumTo(f, k) == IF k < 0 THEN 0 ELSE f[k] + SumTo(f, k - 1)

\* the sum of f over 0 .. dim-1
Sum(f, dim) == SumTo(f, dim - 1)

Idx(dim) == 0 .. (dim - 1)

\* a / sqrt(2)^sa = b / sqrt(2)^sb, exactly (sqrt(2) is irrational: with an odd
\* difference of exponents only 0 = 0 holds)
ScalarEq(a, sa, b, sb) ==
    IF sa >= sb
    THEN IF (sa - sb) % 2 = 0 THEN a = b * Pow2((sa - sb) \div 2)
                              ELSE a = 0 /\ b = 0
    ELSE IF (sb - sa) % 2 = 0 THEN b = a * Pow2((sb - sa) \div 2)
                              ELSE a = 0 /\ b = 0

(* ------------------------- matrices and vectors ------------------------- *)

Unbound == [dim |-> 0, num |-> <<>>, sq |-> 0]

IsBound(x) == x.dim # 0

\* np.zeros(shape=(dim, dim)); the entries are kept over the denominator sqrt(2)^sq
Zeros(dim, sq) ==
    [dim |-> dim, num |-> [p \in Idx(dim) \X Idx(dim) |-> 0], sq |-> sq]

\* Operator(HGate()): (1/sqrt(2)) [[1, 1], [1, -1]]
HGate ==
    [dim |-> 2,
     num |-> [p \in Idx(2) \X Idx(2) |-> IF p[1] = 1 /\ p[2] = 1 THEN -1 ELSE 1],
     sq  |-> 1]

\* A.tensor(B) = A (x) B, numpy.kron(A, B)
Tensor(A, B) ==
    [dim |-> A.dim * B.dim,
     num |-> [p \in Idx(A.dim * B.dim) \X Idx(A.dim * B.dim) |->
                A.num[<<p[1] \div B.dim, p[2] \div B.dim>>]
              * B.num[<<p[1] % B.dim, p[2] % B.dim>>]],
     sq  |-> A.sq + B.sq]

\* A @ B for operands of equal dimension: the matrix product A.B
MatMul(A, B) ==
    [dim |-> A.dim,
     num |-> [p \in Idx(A.dim) \X Idx(A.dim) |->
                Sum([k \in Idx(A.dim) |-> A.num[<<p[1], k>>] * B.num[<<k, p[2]>>]],
                    A.dim)],
     sq  |-> A.sq + B.sq]

\* Operator.__eq__: same dimensions and numpy.allclose on the data
OpEq(A, B) ==
    /\ A.dim = B.dim
    /\ \A p \in Idx(A.dim) \X Idx(A.dim) :
           ScalarEq(A.num[p], A.sq, B.num[p], B.sq)

\* slip: the inner product stops one term short (range(dim - 1))
EvolveShort(psi, Op) ==
    [dim |-> psi.dim,
     num |-> [r \in Idx(psi.dim) |->
                Sum([k \in Idx(psi.dim) |-> Op.num[<<r, k>>] * psi.num[k]],
                    psi.dim - 1)],
     sq  |-> psi.sq + Op.sq]

\* Statevector.evolve(Op) for operands of equal dimension: Op . psi
Evolve(psi, Op) ==
    [dim |-> psi.dim,
     num |-> [r \in Idx(psi.dim) |->
                Sum([k \in Idx(psi.dim) |-> Op.num[<<r, k>>] * psi.num[k]],
                    psi.dim)],
     sq  |-> psi.sq + Op.sq]

(* --------------------------------- Init --------------------------------- *)

Init ==
    /\ pc = "cell1"
    /\ n = 0
    /\ D = Unbound
    /\ i = 0
    /\ j = 0
    /\ writes = <<>>
    /\ psi_input = Unbound
    /\ out3 = Unbound
    /\ H = Unbound
    /\ R = Unbound
    /\ new_D = Unbound
    /\ out6 = "none"
    /\ err = [c \in 1 .. 6 |-> "none"]

(* ------------------------- cell 1: D construction ----------------------- *)

\* code cell c raises e; the next cell is executed after it
Raise(c, e, next) ==
    /\ pc' = next
    /\ err' = [err EXCEPT ![c] = e]

\* slip: the diagonal branch never matches, the diagonal keeps np.zeros' 0
DEntryNoDiag(nn, r, c) == IF r # c THEN 2 ELSE 0

\* slip: the diagonal is 1 + 2 / (2 ** n)
DEntrySign(nn, r, c) == IF r # c THEN 2 ELSE Pow2(nn) + 2

\* the numerator, over 2 ** nn, of the value the loop body assigns to D[r, c]
DEntry(nn, r, c) ==
    IF r # c THEN 2                  \* 2 / (2 ** n)
    ELSE -Pow2(nn) + 2               \* -1 + (2 / (2 ** n))

\* n = nn; D = np.zeros(shape=(2 ** n, 2 ** n)): numpy rejects a float shape
Cell1Start(nn) ==
    /\ pc = "cell1"
    /\ n' = nn
    /\ IF PyPow2IsInt(nn)
       THEN /\ D' = Zeros(Pow2(nn), 2 * nn)
            /\ writes' = [p \in Idx(Pow2(nn)) \X Idx(Pow2(nn)) |-> 0]
            /\ i' = 0
            /\ j' = 0
            /\ pc' = "D_loop"
            /\ err' = err
       ELSE /\ Raise(1, "TypeError", "cell2")
            /\ UNCHANGED <<D, writes, i, j>>
    /\ UNCHANGED <<psi_input, out3, H, R, new_D, out6>>

\* the cursor of "for i in range(dim): for j in range(dim):" after one body
NextI(dim, r, c) == IF c + 1 < dim THEN r ELSE r + 1

NextJ(dim, r, c) == IF c + 1 < dim THEN c + 1 ELSE 0

\* one execution of the body of the double loop
Cell1Loop ==
    /\ pc = "D_loop"
    /\ i < D.dim
    /\ D' = [D EXCEPT !.num[<<i, j>>] = DEntry(n, i, j)]
    /\ writes' = [writes EXCEPT ![<<i, j>>] = @ + 1]
    /\ i' = NextI(D.dim, i, j)
    /\ j' = NextJ(D.dim, i, j)
    /\ UNCHANGED <<pc, n, psi_input, out3, H, R, new_D, out6, err>>

\* the loop is exhausted; D = Operator(D); D.draw("latex")
Cell1Finish ==
    /\ pc = "D_loop"
    /\ i = D.dim
    /\ pc' = "cell2"
    /\ UNCHANGED <<n, D, i, j, writes, psi_input, out3, H, R, new_D, out6, err>>

(* ---------------------- cells 2 and 3: psi_input, evolve ----------------- *)

\* (1 / np.sqrt(8)) * np.array([1, -1, 1, 1, 1, 1, -1, 1])
PsiLiteral ==
    [dim |-> 8,
     num |-> [k \in Idx(8) |-> IF k \in {1, 6} THEN -1 ELSE 1],
     sq  |-> 3]

\* psi_input = Statevector(v)
Cell2(v) ==
    /\ pc = "cell2"
    /\ psi_input' = v
    /\ pc' = "cell3"
    /\ UNCHANGED <<n, D, i, j, writes, out3, H, R, new_D, out6, err>>

\* psi_input.evolve(D): D must be bound, and qiskit refuses operands of
\* different dimensions
Cell3 ==
    /\ pc = "cell3"
    /\ IF ~IsBound(D)
       THEN /\ Raise(3, "NameError", "cell4")
            /\ out3' = out3
       ELSE IF psi_input.dim # D.dim
       THEN /\ Raise(3, "QiskitError", "cell4")
            /\ out3' = out3
       ELSE /\ out3' = Evolve(psi_input, D)
            /\ pc' = "cell4"
            /\ err' = err
    /\ UNCHANGED <<n, D, i, j, writes, psi_input, H, R, new_D, out6>>

(* ------------------------------ cell 4: H ------------------------------- *)

\* slip: the tensor product is left out, H is one Hadamard gate
Cell4Single ==
    /\ pc = "cell4"
    /\ H' = HGate
    /\ pc' = "cell5"
    /\ UNCHANGED <<n, D, i, j, writes, psi_input, out3, R, new_D, out6, err>>

\* H = Operator(HGate()).tensor(Operator(HGate()))
Cell4 ==
    /\ pc = "cell4"
    /\ H' = Tensor(HGate, HGate)
    /\ pc' = "cell5"
    /\ UNCHANGED <<n, D, i, j, writes, psi_input, out3, R, new_D, out6, err>>

\* the k-fold tensor product of the Hadamard operator, k >= 1
RECURSIVE build_hadamard_tensor(_)
build_hadamard_tensor(k) ==
    IF k <= 1 THEN HGate ELSE Tensor(build_hadamard_tensor(k - 1), HGate)

\* cell 4 with as many Hadamard factors as n; n must be a positive integer
Cell4N ==
    /\ pc = "cell4"
    /\ IF n >= 1
       THEN /\ H' = build_hadamard_tensor(n)
            /\ pc' = "cell5"
            /\ err' = err
       ELSE /\ Raise(4, "InvalidDimension", "cell5")
            /\ H' = H
    /\ UNCHANGED <<n, D, i, j, writes, psi_input, out3, R, new_D, out6>>

(* ----------------------- cell 5: R and new_D = H R H -------------------- *)

\* slip: the branch for i == j == 0 never matches, R is -I
REntryAllFlipped(r, c) == IF r # c THEN 0 ELSE -1

\* the value the loop body assigns to R[r, c]
REntry(r, c) ==
    IF r # c THEN 0
    ELSE IF r = 0 THEN 1
    ELSE -1

\* R = np.zeros(shape=(2 ** n, 2 ** n))
Cell5Start ==
    /\ pc = "cell5"
    /\ IF PyPow2IsInt(n)
       THEN /\ R' = Zeros(Pow2(n), 0)
            /\ i' = 0
            /\ j' = 0
            /\ pc' = "R_loop"
            /\ err' = err
       ELSE /\ Raise(5, "TypeError", "cell6")
            /\ UNCHANGED <<R, i, j>>
    /\ UNCHANGED <<n, D, writes, psi_input, out3, H, new_D, out6>>

\* one execution of the body of the double loop
Cell5Loop ==
    /\ pc = "R_loop"
    /\ i < R.dim
    /\ R' = [R EXCEPT !.num[<<i, j>>] = REntry(i, j)]
    /\ i' = NextI(R.dim, i, j)
    /\ j' = NextJ(R.dim, i, j)
    /\ UNCHANGED <<pc, n, D, writes, psi_input, out3, H, new_D, out6, err>>

\* new_D = H @ R @ H; new_D = Operator(new_D): H must be bound, qiskit refuses
\* H @ R when the dimensions differ, and new_D then stays unbound
Cell5Finish ==
    /\ pc = "R_loop"
    /\ i = R.dim
    /\ IF ~IsBound(H)
       THEN /\ Raise(5, "NameError", "cell6")
            /\ new_D' = new_D
       ELSE IF H.dim # R.dim
       THEN /\ Raise(5, "QiskitError", "cell6")
            /\ new_D' = new_D
       ELSE /\ new_D' = MatMul(MatMul(H, R), H)
            /\ pc' = "cell6"
            /\ err' = err
    /\ UNCHANGED <<n, D, i, j, writes, psi_input, out3, H, R, out6>>

(* --------------------------- cell 6: D == new_D ------------------------- *)

\* D == new_D: both names must be bound
Cell6 ==
    /\ pc = "cell6"
    /\ IF ~IsBound(D) \/ ~IsBound(new_D)
       THEN /\ Raise(6, "NameError", "done")
            /\ out6' = out6
       ELSE /\ out6' = (IF OpEq(D, new_D) THEN "True" ELSE "False")
            /\ pc' = "done"
            /\ err' = err
    /\ UNCHANGED <<n, D, i, j, writes, psi_input, out3, H, R, new_D>>

(* ---------------------------- specifications ---------------------------- *)

\* the notebook as written, its code cells run once each from top to bottom
Next ==
    \/ Cell1Start(n_literal)
    \/ Cell1Loop
    \/ Cell1Finish
    \/ Cell2(PsiLiteral)
    \/ Cell3
    \/ Cell4
    \/ Cell5Start
    \/ Cell5Loop
    \/ Cell5Finish
    \/ Cell6

Spec == Init /\ [][Next]_vars

\* the qubit counts the parametrised run tries
NRange == (0 - MaxNeg) .. MaxN

\* the same run for any n, with the n-fold Hadamard product as H
NextParam ==
    \/ \E nn \in NRange : Cell1Start(nn)
    \/ Cell1Loop
    \/ Cell1Finish
    \/ Cell2(PsiLiteral)
    \/ Cell3
    \/ Cell4N
    \/ Cell5Start
    \/ Cell5Loop
    \/ Cell5Finish
    \/ Cell6

SpecParam == Init /\ [][NextParam]_vars

\* every vector of the given length with integer amplitudes in -MaxAmp .. MaxAmp
AnyPsi(dim) ==
    {[dim |-> dim, num |-> f, sq |-> 0] : f \in [Idx(dim) -> (0 - MaxAmp) .. MaxAmp]}

Cell2Any ==
    /\ pc = "cell2"
    /\ \E v \in AnyPsi(D.dim) : Cell2(v)

\* cells 1 to 3 for any n and any amplitude vector of length 2^n
NextApply ==
    \/ \E nn \in 1 .. MaxQubits : Cell1Start(nn)
    \/ Cell1Loop
    \/ Cell1Finish
    \/ Cell2Any
    \/ Cell3

SpecApply == Init /\ [][NextApply]_vars

(* -------------------------------- claims -------------------------------- *)

\* the cell 1 loop has not reached entry (r, c) yet
Pending(r, c) == pc = "D_loop" /\ (r > i \/ (r = i /\ c >= j))

\* C2: for n >= 1 the constructed D has D[i][j] = 2/2^n off the diagonal and
\* 2/2^n - 1 on it (numerators 2 and 2 - 2^n over the denominator 2^n), and
\* the double loop assigns each of the 2^n x 2^n entries exactly once: an
\* entry the loop has passed was written once and holds its formula value,
\* an entry it has not reached is unwritten and still 0.
C2_EntriesByFormula ==
    (n >= 1 /\ IsBound(D)) =>
        /\ D.dim = Pow2(n)
        /\ D.sq = 2 * n
        /\ \A r \in Idx(D.dim), c \in Idx(D.dim) :
              IF Pending(r, c)
              THEN writes[<<r, c>>] = 0 /\ D.num[<<r, c>>] = 0
              ELSE /\ writes[<<r, c>>] = 1
                   /\ D.num[<<r, c>>] = (IF r = c THEN 2 - Pow2(n) ELSE 2)

C2_Witness ==
    /\ pc = "cell2"
    /\ n = 3
    /\ D.num[<<5, 5>>] = -6
    /\ D.num[<<5, 2>>] = 2
    /\ writes[<<7, 7>>] = 1

\* C1: for every n >= 1 tried (1 .. MaxN), the D built from the entry formula
\* equals entry by entry the factored H.R.H, H the n-fold Hadamard product:
\* both are integer matrices over the denominator 2^n (N.D and S.R.S), the
\* numerators agree, and the comparison D == new_D returns True.
C1_FactoredEqualsDirect ==
    (pc \in {"cell6", "done"} /\ n >= 1) =>
        /\ err[5] = "none"
        /\ H.dim = Pow2(n) /\ H.sq = n
        /\ \A r \in Idx(R.dim), c \in Idx(R.dim) :
              R.num[<<r, c>>] = (IF r # c THEN 0 ELSE IF r = 0 THEN 1 ELSE -1)
        /\ new_D.dim = D.dim
        /\ new_D.sq = D.sq
        /\ \A p \in Idx(D.dim) \X Idx(D.dim) : new_D.num[p] = D.num[p]
        /\ (pc = "done" => out6 = "True")

C1_Witness ==
    /\ pc = "done"
    /\ n = 4
    /\ new_D.dim = 16
    /\ out6 = "True"

\* C10 (as claimed): when the notebook's cells have run once each from top to
\* bottom, H has the dimension 2^n of D and R, H @ R @ H did not raise, and
\* D == new_D returned True.
C10_NotebookEndsTrue ==
    pc = "done" =>
        /\ H.dim = Pow2(n)
        /\ err[5] = "none"
        /\ out6 = "True"

\* C3: for n = 3, D applied to (1/sqrt(8)).[1,-1,1,1,1,1,-1,1] has amplitude
\* sqrt(2)/2 = 1/sqrt(2) on indices 1 and 6 and 0 elsewhere; on the scaled
\* integers, (2J - 8I).[1,-1,1,1,1,1,-1,1] = [0,16,0,0,0,0,16,0].
C3_WorkedExample ==
    pc \in {"cell4", "cell5", "R_loop", "cell6", "done"} =>
        /\ err[3] = "none"
        /\ out3.dim = 8
        /\ \A k \in Idx(8) :
              IF k \in {1, 6}
              THEN out3.num[k] = 16 /\ ScalarEq(out3.num[k], out3.sq, 1, 1)
              ELSE out3.num[k] = 0

C3_Witness ==
    /\ pc = "cell4"
    /\ n = 3
    /\ psi_input = PsiLiteral
    /\ out3.num[6] # 0

\* C8: for n = 2, H (x) H is 1/2 times the sign matrix
\* [[1,1,1,1],[1,-1,1,-1],[1,1,-1,-1],[1,-1,-1,1]]: entry (r, c) is -1 when
\* an odd number of bit positions is set in both r and c, else +1.
C8_HadamardPattern ==
    IsBound(H) =>
        /\ H.dim = 4
        /\ ScalarEq(1, H.sq, 1, 2)
        /\ \A r \in Idx(4), c \in Idx(4) :
              H.num[<<r, c>>] =
                  <<<<1, 1, 1, 1>>, <<1, -1, 1, -1>>,
                    <<1, 1, -1, -1>>, <<1, -1, -1, 1>>>>[r + 1][c + 1]
        /\ \A r \in Idx(4), c \in Idx(4) :
              H.num[<<r, c>>] =
                  (IF ((r % 2) * (c % 2) + (r \div 2) * (c \div 2)) % 2 = 1
                   THEN -1 ELSE 1)

C8_Witness ==
    /\ pc = "cell5"
    /\ IsBound(H)
    /\ H.num[<<3, 3>>] = 1
    /\ H.num[<<1, 3>>] = -1

\* C9 (as claimed): constructing D with n <= 0 fails with InvalidDimension
\* and binds no matrix.
C9_InvalidDimension ==
    (pc = "cell2" /\ n <= 0) => (err[1] = "InvalidDimension" /\ ~IsBound(D))

\* C9 (amended): with n = 0 the construction raises nothing and D is the
\* 1 x 1 matrix [[1]]; with n < 0 it raises TypeError at np.zeros (never
\* InvalidDimension) and D is left unbound.
C9_ZeroBuildsNegativeTypeError ==
    (pc = "cell2" /\ n <= 0) =>
        IF n = 0
        THEN /\ err[1] = "none"
             /\ D.dim = 1
             /\ ScalarEq(D.num[<<0, 0>>], D.sq, 1, 0)
        ELSE /\ err[1] = "TypeError"
             /\ ~IsBound(D)

C9_Witness ==
    /\ pc = "cell2"
    /\ n = 0
    /\ IsBound(D)
    /\ writes[<<0, 0>>] = 1

\* C6: for n >= 1, D is orthogonal: each row of the constructed D has squared
\* length 1 and two distinct rows have inner product 0.
C6_Orthogonal ==
    (pc = "cell2" /\ n >= 1 /\ IsBound(D)) =>
        \A r \in Idx(D.dim), c \in Idx(D.dim) :
            ScalarEq(Sum([k \in Idx(D.dim) |-> D.num[<<r, k>>] * D.num[<<c, k>>]],
                         D.dim),
                     2 * D.sq,
                     IF r = c THEN 1 ELSE 0, 0)

C6_Witness ==
    /\ pc = "cell2"
    /\ n = 4
    /\ D.dim = 16

\* C4: D inverts every amplitude about the mean: the result of evolve has
\* (D.psi)[r] = 2 mean(psi) - psi[r]; over the denominator N = 2^n,
\* N (D.psi)[r] = 2 sum(psi) - N psi[r].
C4_InversionAboutMean ==
    (pc = "cell4" /\ err[3] = "none") =>
        /\ out3.dim = psi_input.dim
        /\ out3.sq = psi_input.sq + 2 * n
        /\ LET total == Sum(psi_input.num, psi_input.dim)
               N == Pow2(n)
           IN  \A r \in Idx(out3.dim) :
                   out3.num[r] = 2 * total - N * psi_input.num[r]

C4_Witness ==
    /\ pc = "cell4"
    /\ n = 2
    /\ psi_input.num = [k \in Idx(4) |-> IF k = 2 THEN -1 ELSE 1]
    /\ out3.num[2] = 8

\* C5: D is an involution: D.D is the identity matrix, and evolving the
\* result of evolve by D once more gives psi_input back.
C5_Involution ==
    /\ (pc = "cell2" /\ IsBound(D)) =>
           LET DD == MatMul(D, D)
           IN  \A p \in Idx(D.dim) \X Idx(D.dim) :
                   ScalarEq(DD.num[p], DD.sq, IF p[1] = p[2] THEN 1 ELSE 0, 0)
    /\ (pc = "cell4" /\ err[3] = "none") =>
           LET twice == Evolve(out3, D)
           IN  \A r \in Idx(psi_input.dim) :
                   ScalarEq(twice.num[r], twice.sq,
                            psi_input.num[r], psi_input.sq)

C5_Witness ==
    /\ pc = "cell4"
    /\ n = 2
    /\ psi_input.num = [k \in Idx(4) |-> IF k = 0 THEN -1 ELSE k % 2]
    /\ out3.num # psi_input.num

SumSq(f, dim) == Sum([k \in Idx(dim) |-> f[k] * f[k]], dim)

\* C7: evolve preserves the norm: the squared amplitudes of D.psi sum to the
\* same value as those of psi, with no renormalisation in evolve.
C7_NormPreserved ==
    (pc = "cell4" /\ err[3] = "none") =>
        ScalarEq(SumSq(out3.num, out3.dim), 2 * out3.sq,
                 SumSq(psi_input.num, psi_input.dim), 2 * psi_input.sq)

C7_Witness ==
    /\ pc = "cell4"
    /\ n = 2
    /\ SumSq(psi_input.num, 4) = 3
    /\ SumSq(out3.num, 4) = 48

====
